---------------------------- MODULE Spec2Model ----------------------------
(***************************************************************************)
(* Order Lifecycle Engine (services/orderService.js) over a PostgreSQL     *)
(* store reached through Prisma interactive transactions.                  *)
(*                                                                         *)
(* The store runs at READ COMMITTED: a findUnique issued through the       *)
(* transaction client sees the rows committed at the time of the statement *)
(* plus the transaction's own writes and takes no lock; an update takes    *)
(* the row lock (waiting while another transaction holds it), applies its  *)
(* increment or decrement to the newest row version, and keeps the lock    *)
(* until the transaction commits or rolls back.  Inserted rows are         *)
(* invisible to other sessions until commit.  The `id` SERIAL sequences    *)
(* are not transactional.                                                  *)
(*                                                                         *)
(* Money is counted in hundredths (DECIMAL(10,2)).  The engine adds        *)
(* parseFloat(price) * quantity in binary floating point and the store     *)
(* rounds the sum back to two decimals; for the magnitudes of the model    *)
(* the float error is far below half a hundredth, so the stored total is   *)
(* the exact sum of hundredths.                                            *)
(***************************************************************************)
EXTENDS Integers, Sequences, FiniteSets, TLC

(* ----------------------------- bounds --------------------------------- *)
MaxCalls == 2        \* engine calls started in one behaviour
MaxQty   == 1        \* largest quantity of a request line
MaxNow   == 1        \* milliseconds the clock advances in one behaviour

Procs       == {1, 2}          \* concurrent request slots
Users       == {1}             \* rows of users
UserIds     == {1, 2}          \* identifiers a request may carry
Products    == {1, 2}          \* rows of products
ProductIds  == {1, 2, 3}       \* identifiers a request line may carry
ItemCounts  == {1, 2}          \* lengths of the item list of a request
InitStock   == <<1, 2>>
InitPrice   == <<250, 199>>
NewPrice    == <<300, 150>>    \* prices after a catalog change
Repriced    == {1}             \* the products whose price is changed
LegacyStatuses == {"pending", "processing", "shipped", "delivered"}

VARIABLES
  stock,        \* products.stock, committed
  price,        \* products.price, committed (hundredths)
  orders,       \* committed orders with their order_items, by id
  payments,     \* committed payments rows, in insertion order
  nextOrderId,  \* orders_id_seq
  fallible,     \* TRUE when the Payment Authorizer in use may decline
  lossy,        \* TRUE when the emission of a trace event may fail
  now,          \* Date.now(), in milliseconds
  calls,        \* engine calls started so far
  st,           \* per request slot: position, locals, open transaction
  ledger        \* per product: units restored by committed cancellations
                \* minus units taken by committed creations

store == <<stock, price, orders, payments>>

\* what the run is set in: the authorizer, the log sink, the clock
setting == <<fallible, lossy, now>>

vars  == <<stock, price, orders, payments, nextOrderId, fallible, lossy, now,
           calls, st, ledger>>

(* ----------------------------- helpers -------------------------------- *)
RECURSIVE SumSeq(_)
SumSeq(s) == IF s = <<>> THEN 0 ELSE Head(s) + SumSeq(Tail(s))

LineAmountParseInt(productPrice, quantity) ==
  (productPrice \div 100) * 100 * quantity

\* line 59: parseFloat(product.price) * item.quantity
LineAmount(productPrice, quantity) == productPrice * quantity

AccumulateOverwrites(totalAmount, amount) == amount

\* line 59: totalAmount += ...
Accumulate(totalAmount, amount) == totalAmount + amount

\* sum of price x quantity over order_items rows
ItemsTotal(its) == SumSeq([i \in DOMAIN its |-> its[i].price * its[i].quantity])

\* units of product p in a list of lines (request items or order_items)
QtyOf(its, p) ==
  SumSeq([i \in DOMAIN its |-> IF its[i].productId = p THEN its[i].quantity ELSE 0])

\* item lists the request handler lets through: non-empty, quantity > 0
ItemLists ==
  LET Line == [productId : ProductIds, quantity : 1..MaxQty]
  IN  UNION {[1..n -> Line] : n \in ItemCounts}

NoRequest == [none |-> TRUE]
NoOrder   == [id |-> 0, userId |-> 0, status |-> "none", totalAmount |-> 0,
              orderItems |-> <<>>, byEngine |-> FALSE]
NoPayment == [orderId |-> 0, amount |-> 0, status |-> "none"]
NoResult  == [kind |-> "none", error |-> "", orderId |-> 0, status |-> "",
              totalAmount |-> 0, detail |-> <<>>]
NoSnapshot == [stock |-> <<>>, orders |-> <<>>, payments |-> <<>>]

Snapshot == [stock |-> stock, orders |-> orders, payments |-> payments]

\* the same with the products' prices, what a read of an order joins with
SnapshotWithPrices ==
  [stock |-> stock, orders |-> orders, payments |-> payments, price |-> price]

Idle == [pc |-> "idle", op |-> "none", userId |-> 0, items |-> <<>>,
         orderId |-> 0, idx |-> 0, orderItemsData |-> <<>>, totalAmount |-> 0,
         dstock |-> [p \in Products |-> 0], held |-> {},
         order |-> NoOrder, heldOrder |-> 0, payment |-> NoPayment,
         paymentResult |-> "none", authCalls |-> 0, result |-> NoResult,
         transactionId |-> <<>>, trace |-> <<>>, request |-> NoRequest,
         pre |-> NoSnapshot, alone |-> TRUE]

Active(a) == st[a].pc \notin {"idle", "done"}

\* the order present before the engine starts: written by the larger
\* system the status values exist for, never by createOrder
LegacyOrder(s) ==
  [id |-> 1, userId |-> 1, status |-> s, totalAmount |-> InitPrice[1],
   orderItems |-> <<[productId |-> 1, quantity |-> 1, price |-> InitPrice[1]]>>,
   byEngine |-> FALSE]

LegacyPayments(s) ==
  IF s = "pending" THEN <<>>
  ELSE <<[orderId |-> 1, amount |-> InitPrice[1], status |-> "succeeded"]>>

(* ------------------------------ store --------------------------------- *)
\* row locks: taken by an UPDATE, held until COMMIT or ROLLBACK
ProductLockFree(a, p) == \A b \in Procs \ {a} : p \notin st[b].held
OrderLockFree(a, o)   == \A b \in Procs \ {a} : st[b].heldOrder # o

ReadCommittedStock(a, p) == stock[p]

\* tx.product.findUnique: the committed row plus the transaction's own writes
TxReadStock(a, p) == stock[p] + st[a].dstock[p]

UpdateOutsideTransaction(a, p, d) ==
  [stock |-> [stock EXCEPT ![p] = @ + d], dstock |-> st[a].dstock]

\* tx.product.update({stock: {increment | decrement}}) through the
\* transaction client: the write stays in the transaction until COMMIT
TxUpdateStock(a, p, d) ==
  [stock |-> stock, dstock |-> [st[a].dstock EXCEPT ![p] = @ + d]]

CommitStale(a) == [p \in Products |-> st[a].pre.stock[p] + st[a].dstock[p]]

\* COMMIT of the product rows written by the transaction of a
CommitStock(a) == [p \in Products |-> stock[p] + st[a].dstock[p]]

RollbackKeepsWrites(a) == CommitStock(a)

\* ROLLBACK: none of the product rows written by the transaction of a
RollbackStock(a) == stock

\* COMMIT of the inserted order together with its order_items rows
InsertOrder(o) ==
  [i \in DOMAIN orders \cup {o.id} |-> IF i = o.id THEN o ELSE orders[i]]

\* payments of order o among rows ps
PaymentsOf(ps, o) == {i \in DOMAIN ps : ps[i].orderId = o}

(* --------------------------- request slots ---------------------------- *)
\* slots are interchangeable: a request takes the lowest free one (its
\* previous call, if any, has returned)
LowestIdle(a) ==
  /\ ~Active(a)
  /\ \A b \in Procs : b < a => Active(b)

OthersActive(a) == \E b \in Procs \ {a} : Active(b)

\* slot a becomes s; every call in flight learns that it overlapped another
Begin(a, s) ==
  [b \in Procs |->
     IF b = a THEN [s EXCEPT !.alone = ~OthersActive(a), !.pre = Snapshot]
     ELSE IF Active(b) THEN [st[b] EXCEPT !.alone = FALSE] ELSE st[b]]

\* the call of slot a ends with res; its transaction state is gone
Done(s, res) ==
  [s EXCEPT !.pc = "done", !.result = res, !.dstock = Idle.dstock,
            !.held = {}, !.heldOrder = 0, !.idx = 0, !.payment = NoPayment]

Error(name, info) == [NoResult EXCEPT !.kind = "error", !.error = name, !.detail = info]

(* ------------------------- request bodies ----------------------------- *)
\* req.body.items when it is an array of `lines`
ItemsArray(lines) == [array |-> TRUE, elems |-> lines]

\* bodies of POST /api/orders the handler lets through
GoodRequests ==
  {[userId |-> u, items |-> ItemsArray(its)] : u \in UserIds, its \in ItemLists}

\* and bodies it does not: no userId, userId 0, no items, items that are
\* not an array, no line, a line without productId, without quantity, with
\* quantity 0, with a negative quantity after a good line
BadRequests ==
  LET good == [productId |-> 1, quantity |-> 1]
  IN  {[items |-> ItemsArray(<<good>>)],
       [userId |-> 0, items |-> ItemsArray(<<good>>)],
       [userId |-> 1],
       [userId |-> 1, items |-> [array |-> FALSE, elems |-> <<>>]],
       [userId |-> 1, items |-> ItemsArray(<<>>)],
       [userId |-> 1, items |-> ItemsArray(<<[quantity |-> 1]>>)],
       [userId |-> 1, items |-> ItemsArray(<<[productId |-> 1]>>)],
       [userId |-> 1, items |-> ItemsArray(<<[productId |-> 1, quantity |-> 0]>>)],
       [userId |-> 1,
        items |-> ItemsArray(<<good, [productId |-> 2, quantity |-> -1]>>)]}

OrderRequests == GoodRequests \cup BadRequests

\* !x for an own property x of a JSON object: absent, or 0
Falsy(object, key) ==
  IF key \notin DOMAIN object THEN TRUE ELSE object[key] = 0

InvalidItemUnlessNegative(item) ==
  IF Falsy(item, "productId") THEN TRUE ELSE Falsy(item, "quantity")

\* part_001 line 20: !item.productId || !item.quantity || item.quantity <= 0
InvalidItem(item) ==
  IF Falsy(item, "productId") THEN TRUE
  ELSE IF Falsy(item, "quantity") THEN TRUE
  ELSE item.quantity <= 0

\* part_001 line 12:
\* !userId || !items || !Array.isArray(items) || items.length === 0
NotAnOrder(body) ==
  IF Falsy(body, "userId") THEN TRUE
  ELSE IF "items" \notin DOMAIN body THEN TRUE
  ELSE IF ~body.items.array THEN TRUE
  ELSE Len(body.items.elems) = 0

\* part_001 lines 12 and 19-25: the two checks that answer 400
InvalidRequest(body) ==
  IF NotAnOrder(body) THEN TRUE
  ELSE \E i \in DOMAIN body.items.elems : InvalidItem(body.items.elems[i])

\* part_001 lines 13-15 and 21-23: the error of the 400 response
InvalidRequestError(body) ==
  IF NotAnOrder(body)
  THEN Error("InvalidRequest",
             <<"Invalid", "request.", "userId", "and", "items", "array",
               "are", "required.">>)
  ELSE Error("InvalidRequest",
             <<"Each", "item", "must", "have", "productId", "and",
               "quantity", ">", "0">>)

(* ------------------------------ tracing ------------------------------- *)
EmissionThrows == IF lossy THEN {"written", "thrown"} ELSE {"written"}

\* utils/logger, logger.info and logger.error: the event is written, or the
\* emission fails and the event is lost; the call returns either way
Emission == IF lossy THEN {"written", "lost"} ELSE {"written"}

\* part_002 lines 121-124, 234-237: an exception out of a logger call takes
\* the way of every exception: the transaction is rolled back and the call
\* fails with it
Thrown(s) == Done(s, Error("Internal", <<"logger", "failed">>))

\* the slot records that the calls of the logger for `events`, in this
\* order, can leave of s
RECURSIVE Log(_, _)
Log(s, events) ==
  IF events = <<>> THEN {s}
  ELSE UNION {CASE o = "written" ->
                     Log([s EXCEPT !.trace = Append(@, Head(events))], Tail(events))
                [] o = "lost" -> Log(s, Tail(events))
                [] OTHER -> {Thrown(s)} : o \in Emission}

\* part_002 lines 122, 235: the event the catch block logs
Rollback(s) ==
  IF s.op = "cancel" THEN "CANCEL_TRANSACTION_ROLLBACK" ELSE "TRANSACTION_ROLLBACK"

\* `events` are logged and an Error is thrown in the callback: Prisma rolls
\* back, the catch logs the rollback and rethrows (lines 121-124, 234-237)
Throw(s, events, res) ==
  UNION {IF x.pc = "done" THEN {x} ELSE Log(Done(x, res), <<Rollback(x)>>) :
         x \in Log(s, events)}

(* --------------------------- createOrder ------------------------------ *)
\* line 37, negated: the line can be served from the stock read
StockSufficient(productStock, quantity) == ~(productStock < quantity)

UserCheckSkipped(u) == TRUE

\* lines 15-21: tx.user.findUnique returned a row
UserExists(u) == u \in Users

CurrentItemFromEnd(s) == s.items[Len(s.items) + 1 - s.idx]

\* line 27: for (const item of items), the line the loop is at
CurrentItem(s) == s.items[s.idx]

DefaultStatus == "pending"

\* line 72: status: 'processing'
CreatedStatus == "processing"

\* part_001 lines 9-27: a body that passes the handler's checks reaches
\* orderService.createOrder;
\* lines 6-21: TRANSACTION_START, prisma.$transaction, tx.user.findUnique,
\* 'User not found'
createOrder(a) ==
  /\ LowestIdle(a)
  /\ calls < MaxCalls
  /\ \E body \in OrderRequests :
       /\ ~InvalidRequest(body)
       /\ \E s \in Log([Idle EXCEPT !.op = "create", !.userId = body.userId,
                                    !.items = body.items.elems,
                                    !.transactionId = <<"txn", now>>],
                       <<"TRANSACTION_START">>) :
            \E x \in IF s.pc = "done" THEN {s}
                     ELSE IF UserExists(body.userId)
                     THEN {[s EXCEPT !.pc = "c_find", !.idx = 1]}
                     ELSE Throw(s, <<>>, Error("UserNotFound", <<>>)) :
              st' = Begin(a, x)
  /\ calls' = calls + 1
  /\ UNCHANGED <<store, nextOrderId, setting, ledger>>

\* lines 27-59: tx.product.findUnique, 'Product ... not found', the stock
\* check, the line pushed on orderItemsData and added to totalAmount
CreateCheckItem(a) ==
  /\ st[a].pc = "c_find"
  /\ st[a].idx <= Len(st[a].items)
  /\ LET item == CurrentItem(st[a])
         p    == item.productId
     IN  \E s \in IF p \notin Products
                  THEN Throw(st[a], <<>>, Error("ProductNotFound", <<p>>))
                  ELSE IF ~StockSufficient(TxReadStock(a, p), item.quantity)
                  THEN Throw(st[a], <<"INVENTORY_CHECK_FAILED">>,
                             Error("InsufficientStock",
                                   <<p, TxReadStock(a, p), item.quantity>>))
                  ELSE Log([st[a] EXCEPT
                              !.pc = "c_update",
                              !.orderItemsData =
                                 Append(@, [productId |-> p,
                                            quantity  |-> item.quantity,
                                            price     |-> price[p]]),
                              !.totalAmount =
                                 Accumulate(@, LineAmount(price[p], item.quantity))],
                           <<"INVENTORY_CHECK_SUCCESS">>) :
           /\ st' = [st EXCEPT ![a] = s]
           /\ stock' = IF s.pc = "done" THEN RollbackStock(a) ELSE stock
  /\ UNCHANGED <<price, orders, payments, nextOrderId, setting, ledger, calls>>

\* lines 62-65: tx.product.update({stock: {decrement: item.quantity}})
CreateDecrement(a) ==
  /\ st[a].pc = "c_update"
  /\ LET item == CurrentItem(st[a])
         w    == TxUpdateStock(a, item.productId, -item.quantity)
     IN  /\ ProductLockFree(a, item.productId)
         /\ stock' = w.stock
         /\ st' = [st EXCEPT ![a] =
                     [st[a] EXCEPT !.pc = "c_find", !.idx = @ + 1,
                                   !.held = @ \cup {item.productId},
                                   !.dstock = w.dstock]]
  /\ UNCHANGED <<price, orders, payments, nextOrderId, setting, ledger, calls>>

\* lines 69-85: tx.order.create with the nested orderItems
CreateInsertOrder(a) ==
  /\ st[a].pc = "c_find"
  /\ st[a].idx > Len(st[a].items)
  /\ \E s \in Log([st[a] EXCEPT !.pc = "c_pay",
                                !.order = [id |-> nextOrderId,
                                           userId |-> st[a].userId,
                                           status |-> CreatedStatus,
                                           totalAmount |-> st[a].totalAmount,
                                           orderItems |-> st[a].orderItemsData,
                                           byEngine |-> TRUE]],
                  <<"ORDER_CREATED">>) :
       st' = [st EXCEPT ![a] = s]
  /\ nextOrderId' = nextOrderId + 1
  /\ UNCHANGED <<store, setting, ledger, calls>>

\* paymentService.js: `const success = true`, so the stub approves; a
\* fallible authorizer standing in for it answers either way
processPayment(amount, orderId) == IF fallible THEN {TRUE, FALSE} ELSE {TRUE}

\* paymentResult.success as the slot remembers it
Reply(success) == IF success THEN "approved" ELSE "declined"

PaymentReplyIgnored(success) == FALSE

\* line 92: if (!paymentResult.success)
PaymentDeclined(success) == ~success

PaymentRowMisspelt(orderId, totalAmount) ==
  [orderId |-> orderId, amount |-> totalAmount, status |-> "success"]

\* lines 98-104: the payments row of tx.payment.create
PaymentRow(orderId, totalAmount) ==
  [orderId |-> orderId, amount |-> totalAmount, status |-> "succeeded"]

RetryAfterDecline(s) ==
  IF s.authCalls < 2 THEN s ELSE Done(s, Error("PaymentFailed", <<>>))

\* lines 92-95: PAYMENT_FAILED, throw new Error('Payment processing failed')
AfterDecline(s) == Done(s, Error("PaymentFailed", <<>>))

\* lines 90-104: processPayment, 'Payment processing failed',
\* tx.payment.create
CreatePay(a) ==
  /\ st[a].pc = "c_pay"
  /\ \E success \in processPayment(st[a].totalAmount, st[a].order.id) :
       LET s == [st[a] EXCEPT !.paymentResult = Reply(success),
                              !.authCalls = @ + 1]
       IN  IF PaymentDeclined(success)
           THEN /\ \E x \in Log(s, <<"PAYMENT_FAILURE">>) :
                     \E y \in IF x.pc = "done" THEN {x}
                              ELSE Log(AfterDecline(x), <<Rollback(x)>>) :
                       st' = [st EXCEPT ![a] = y]
                /\ stock' = RollbackStock(a)
           ELSE /\ \E x \in Log([s EXCEPT !.pc = "c_commit",
                                          !.payment = PaymentRow(st[a].order.id,
                                                                 st[a].totalAmount)],
                                <<"PAYMENT_SUCCESS", "TRANSACTION_COMMIT">>) :
                     st' = [st EXCEPT ![a] = x]
                /\ stock' = stock
  /\ UNCHANGED <<price, orders, payments, nextOrderId, setting, ledger, calls>>

\* lines 109-119: the callback returns, Prisma commits, the result is built
CreateCommit(a) ==
  /\ st[a].pc = "c_commit"
  /\ stock' = CommitStock(a)
  /\ orders' = InsertOrder(st[a].order)
  /\ payments' = Append(payments, st[a].payment)
  /\ st' = [st EXCEPT ![a] =
              Done(st[a], [NoResult EXCEPT !.kind = "ok",
                                           !.orderId = st[a].order.id,
                                           !.status = st[a].order.status,
                                           !.totalAmount = st[a].order.totalAmount])]
  /\ ledger' = [p \in Products |->
                  ledger[p] - QtyOf(st[a].order.orderItems, p)]
  /\ UNCHANGED <<price, nextOrderId, setting, calls>>

(* --------------------------- cancelOrder ------------------------------ *)
NeverCancelled(order) == FALSE

\* line 194: order.status === 'cancelled'
AlreadyCancelled(order) == order.status = "cancelled"

OnlyShipped(status) == status = "shipped"

\* line 200: order.status === 'shipped' || order.status === 'delivered'
NotCancelable(status) == status \in {"shipped", "delivered"}

UpdateOrderStatusAndTotal(o, status) ==
  [orders EXCEPT ![o].status = status, ![o].totalAmount = 0]

\* lines 219-222: tx.order.update({where: {id}, data: {status}}), as the
\* commit publishes it
UpdateOrderStatus(o, status) == [orders EXCEPT ![o].status = status]

\* lines 174-202: CANCEL_TRANSACTION_START, prisma.$transaction,
\* tx.order.findUnique with its orderItems, 'Order not found', the early
\* return for a cancelled order, 'Cannot cancel order with status: ...'
cancelOrder(a) ==
  /\ LowestIdle(a)
  /\ calls < MaxCalls
  /\ \E o \in 1..nextOrderId :
       \E s \in Log([Idle EXCEPT !.op = "cancel", !.orderId = o,
                                 !.transactionId = <<"cancel_txn", now>>],
                    <<"CANCEL_TRANSACTION_START">>) :
         \E x \in IF s.pc = "done" THEN {s}
                  ELSE IF o \notin DOMAIN orders
                  THEN Throw(s, <<>>, Error("OrderNotFound", <<>>))
                  ELSE IF AlreadyCancelled(orders[o])
                  THEN Log(Done([s EXCEPT !.order = orders[o]],
                                [NoResult EXCEPT !.kind = "ok", !.orderId = o,
                                                 !.status = orders[o].status]),
                           <<"ORDER_ALREADY_CANCELLED">>)
                  ELSE IF NotCancelable(orders[o].status)
                  THEN Throw(s, <<>>, Error("NotCancelable", <<orders[o].status>>))
                  ELSE {[s EXCEPT !.pc = "x_restore", !.idx = 1,
                                  !.order = orders[o]]} :
           st' = Begin(a, x)
  /\ calls' = calls + 1
  /\ UNCHANGED <<store, nextOrderId, setting, ledger>>

RestoredTwice(item) == 2 * item.quantity

\* line 208: increment: item.quantity
Restored(item) == item.quantity

\* lines 205-209: tx.product.update({stock: {increment: item.quantity}})
CancelRestore(a) ==
  /\ st[a].pc = "x_restore"
  /\ st[a].idx <= Len(st[a].order.orderItems)
  /\ LET item == st[a].order.orderItems[st[a].idx]
         w    == TxUpdateStock(a, item.productId, Restored(item))
     IN  /\ ProductLockFree(a, item.productId)
         /\ \E s \in Log([st[a] EXCEPT !.idx = @ + 1,
                                       !.held = @ \cup {item.productId},
                                       !.dstock = w.dstock],
                         <<"INVENTORY_RESTORED">>) :
              st' = [st EXCEPT ![a] = s]
         /\ stock' = w.stock
  /\ UNCHANGED <<price, orders, payments, nextOrderId, setting, ledger, calls>>

\* lines 219-222: tx.order.update({status: 'cancelled'})
CancelSetStatus(a) ==
  /\ st[a].pc = "x_restore"
  /\ st[a].idx > Len(st[a].order.orderItems)
  /\ OrderLockFree(a, st[a].orderId)
  /\ \E s \in Log([st[a] EXCEPT !.pc = "x_commit",
                                !.heldOrder = st[a].orderId,
                                !.order.status = "cancelled"],
                  <<"CANCEL_TRANSACTION_COMMIT">>) :
       st' = [st EXCEPT ![a] = s]
  /\ UNCHANGED <<store, nextOrderId, setting, ledger, calls>>

\* lines 226-232: the callback returns updatedOrder, Prisma commits
CancelCommit(a) ==
  /\ st[a].pc = "x_commit"
  /\ stock' = CommitStock(a)
  /\ orders' = UpdateOrderStatus(st[a].orderId, st[a].order.status)
  /\ st' = [st EXCEPT ![a] =
              Done(st[a], [NoResult EXCEPT !.kind = "ok",
                                           !.orderId = st[a].order.id,
                                           !.status = st[a].order.status])]
  /\ ledger' = [p \in Products |->
                  ledger[p] + QtyOf(orders[st[a].orderId].orderItems, p)]
  /\ UNCHANGED <<price, payments, nextOrderId, setting, calls>>

(* ------------------------- lock waits, slots -------------------------- *)
\* the slot whose transaction holds the row the next statement of a needs
\* (0: the statement does not wait)
WaitsFor(a) ==
  LET holders(p) == {b \in Procs \ {a} : p \in st[b].held}
      one(S)     == IF S = {} THEN 0 ELSE CHOOSE b \in S : TRUE
  IN  IF st[a].pc = "c_update"
      THEN one(holders(CurrentItem(st[a]).productId))
      ELSE IF st[a].pc = "x_restore" /\ st[a].idx <= Len(st[a].order.orderItems)
      THEN one(holders(st[a].order.orderItems[st[a].idx].productId))
      ELSE IF st[a].pc = "x_restore"
      THEN one({b \in Procs \ {a} : st[b].heldOrder = st[a].orderId})
      ELSE 0

NoDeadlockDetection(a, b, n) == FALSE

RECURSIVE WaitChain(_, _, _)
WaitChain(a, b, n) ==
  IF b = 0 \/ n = 0 THEN FALSE
  ELSE IF b = a THEN TRUE
  ELSE WaitChain(a, WaitsFor(b), n - 1)

\* PostgreSQL finds a cycle of lock waits and fails the statement of one
\* transaction of the cycle ('deadlock detected'); the callback throws,
\* Prisma rolls back (lines 121-124, 234-237)
DeadlockAbort(a) ==
  /\ WaitChain(a, WaitsFor(a), Cardinality(Procs))
  /\ \E s \in Throw(st[a], <<>>, Error("Internal", <<"deadlock detected">>)) :
       st' = [st EXCEPT ![a] = s]
  /\ stock' = RollbackStock(a)
  /\ UNCHANGED <<price, orders, payments, nextOrderId, setting, ledger, calls>>

(* --------------------------- specification ---------------------------- *)
InitStore ==
  /\ stock = InitStock
  /\ price = InitPrice
  /\ \E s \in LegacyStatuses :
       /\ orders = <<LegacyOrder(s)>>
       /\ payments = LegacyPayments(s)
  /\ nextOrderId = 2
  /\ calls = 0
  /\ now = 0
  /\ ledger = [p \in Products |-> 0]
  /\ st = [a \in Procs |-> Idle]

Init == InitStore /\ fallible = FALSE /\ lossy = FALSE

Next ==
  \E a \in Procs :
    \/ createOrder(a)
    \/ CreateCheckItem(a)
    \/ CreateDecrement(a)
    \/ CreateInsertOrder(a)
    \/ CreatePay(a)
    \/ CreateCommit(a)
    \/ cancelOrder(a)
    \/ CancelRestore(a)
    \/ CancelSetStatus(a)
    \/ CancelCommit(a)
    \/ DeadlockAbort(a)

Spec == Init /\ [][Next]_vars

\* a step of the call in slot a after its start: the next statement of its
\* transaction, its commit, or its failure
Advance(a) ==
  \/ CreateCheckItem(a)
  \/ CreateDecrement(a)
  \/ CreateInsertOrder(a)
  \/ CreatePay(a)
  \/ CreateCommit(a)
  \/ CancelRestore(a)
  \/ CancelSetStatus(a)
  \/ CancelCommit(a)
  \/ DeadlockAbort(a)

\* the event loop and the database run the next statement of every
\* transaction that can proceed; the authorizer answers (paymentService
\* lines 8-17: a timer of 100 ms)
Fairness == \A a \in Procs : WF_vars(Advance(a))

\* the calls that get as far as taking row locks: createOrder for a user
\* and products that exist
KnownRequest(s) ==
  s.op = "create" =>
    /\ UserExists(s.userId)
    /\ \A i \in DOMAIN s.items : s.items[i].productId \in Products

\* one order that cancelOrder accepts or one that it refuses
InitLive == Init /\ orders[1].status \in {"pending", "shipped"}

NextLive ==
  \E a \in Procs :
    \/ createOrder(a) /\ KnownRequest(st'[a])
    \/ cancelOrder(a)
    \/ Advance(a)

SpecLive == InitLive /\ [][NextLive]_vars /\ Fairness

\* the same engine with a Payment Authorizer that may decline
InitFallible == InitStore /\ fallible = TRUE /\ lossy = FALSE

SpecFallible == InitFallible /\ [][Next]_vars

\* a millisecond passes
Tick ==
  /\ now < MaxNow
  /\ now' = now + 1
  /\ UNCHANGED <<store, nextOrderId, fallible, lossy, calls, st, ledger>>

NextClock == Next \/ Tick

\* the engine under a clock that advances
SpecClock == Init /\ [][NextClock]_vars

\* the calls made one at a time: a call starts when none is in flight (no
\* statement then waits for a lock)
NextSequential ==
  \E a \in Procs :
    \/ createOrder(a) /\ ~OthersActive(a)
    \/ CreateCheckItem(a)
    \/ CreateDecrement(a)
    \/ CreateInsertOrder(a)
    \/ CreatePay(a)
    \/ CreateCommit(a)
    \/ cancelOrder(a) /\ ~OthersActive(a)
    \/ CancelRestore(a)
    \/ CancelSetStatus(a)
    \/ CancelCommit(a)

SpecSequential == Init /\ [][NextSequential]_vars

\* the calls made one at a time with a log sink whose emissions may fail
InitLossy == InitStore /\ fallible = FALSE /\ lossy = TRUE

SpecLossy == InitLossy /\ [][NextSequential]_vars

\* part_001 lines 9-25: the handler answers 400 to a body that fails its
\* checks and returns; orderService is not called
createOrderRejected(a) ==
  /\ LowestIdle(a)
  /\ calls < MaxCalls
  /\ \E body \in OrderRequests :
       /\ InvalidRequest(body)
       /\ st' = [st EXCEPT ![a] =
                   Done([Idle EXCEPT !.request = body, !.pre = Snapshot,
                                     !.alone = ~OthersActive(a)],
                        InvalidRequestError(body))]
  /\ calls' = calls + 1
  /\ UNCHANGED <<store, nextOrderId, setting, ledger>>

NextHandler ==
  \/ NextSequential
  \/ \E a \in Procs : createOrderRejected(a)

\* the calls made one at a time through the handler of POST /api/orders,
\* which also gets bodies it rejects
SpecHandler == Init /\ [][NextHandler]_vars

(* ------------------- getOrderDetails, the catalog --------------------- *)
OrderItemAtCurrentPrice(item) ==
  [productId |-> item.productId, quantity |-> item.quantity,
   price |-> price[item.productId]]

\* lines 164-169: one entry of `items` in the view, price from the
\* order_items row
OrderItemView(item) ==
  [productId |-> item.productId, quantity |-> item.quantity,
   price |-> item.price]

\* lines 155-170: the view built from the order row and its orderItems
OrderView(order) ==
  [NoResult EXCEPT !.kind = "ok", !.orderId = order.id,
                   !.status = order.status,
                   !.totalAmount = order.totalAmount,
                   !.detail = [i \in DOMAIN order.orderItems |->
                                 OrderItemView(order.orderItems[i])]]

\* lines 128-171: prisma.order.findUnique outside any transaction,
\* 'Order not found', the view
getOrderDetails(a) ==
  /\ LowestIdle(a)
  /\ calls < MaxCalls
  /\ \E o \in 1..nextOrderId :
       LET s == [Idle EXCEPT !.op = "get", !.orderId = o,
                             !.pre = SnapshotWithPrices,
                             !.alone = ~OthersActive(a)]
       IN  st' = [st EXCEPT ![a] =
                    IF o \notin DOMAIN orders
                    THEN Done(s, Error("OrderNotFound", <<>>))
                    ELSE Done(s, OrderView(orders[o]))]
  /\ calls' = calls + 1
  /\ UNCHANGED <<store, nextOrderId, setting, ledger>>

\* the price of a product is changed in the products table by whoever
\* manages the catalog (the engine never writes it)
PriceChange(p) ==
  /\ price[p] # NewPrice[p]
  /\ price' = [price EXCEPT ![p] = NewPrice[p]]
  /\ UNCHANGED <<stock, orders, payments, nextOrderId, setting, ledger, calls, st>>

InitCatalog ==
  /\ InitStore
  /\ fallible = FALSE
  /\ lossy = FALSE
  /\ orders[1].status = "processing"

NextCatalog ==
  \/ Next
  \/ \E a \in Procs : getOrderDetails(a)
  \/ \E p \in Repriced : PriceChange(p)

\* the engine with its read operation, over a catalog whose prices change
SpecCatalog == InitCatalog /\ [][NextCatalog]_vars

(* ----------------------------- timeouts ------------------------------- *)
\* what the database client throws when the transaction was closed because
\* its time ran out, and when none could be started in the time allowed
TransactionTimeout ==
  Error("TransactionTimeout", <<"Transaction", "already", "closed">>)

TransactionSlotUnavailable ==
  Error("TransactionSlotUnavailable",
        <<"Unable", "to", "start", "a", "transaction", "in", "the", "given", "time">>)

\* part_002 lines 13, 110-113 (maxWait: 5000) and line 180 (the client's
\* default): no transaction is obtained within maxWait, $transaction
\* rejects, the catch logs and rethrows
SlotTimeout(a) ==
  /\ LowestIdle(a)
  /\ calls < MaxCalls
  /\ \E c \in {[Idle EXCEPT !.op = "create", !.userId = u, !.items = its,
                            !.transactionId = <<"txn", now>>] :
                 u \in UserIds, its \in ItemLists}
              \cup {[Idle EXCEPT !.op = "cancel", !.orderId = o,
                                 !.transactionId = <<"cancel_txn", now>>] :
                      o \in 1..nextOrderId} :
       \E s \in Log(c, <<IF c.op = "cancel" THEN "CANCEL_TRANSACTION_START"
                                            ELSE "TRANSACTION_START">>) :
         \E x \in IF s.pc = "done" THEN {s}
                  ELSE Throw(s, <<>>, TransactionSlotUnavailable) :
           st' = Begin(a, x)
  /\ calls' = calls + 1
  /\ UNCHANGED <<store, nextOrderId, setting, ledger>>

\* part_002 lines 110-113 (timeout: 10000) and line 180 (the client's
\* default): the time of the transaction runs out, the client rolls it
\* back, and the statement or commit the callback is at fails; when the time
\* runs out during processPayment the callback still gets the authorizer's
\* reply, throws on a decline (line 94) and fails at tx.payment.create
\* otherwise
TxTimeout(a) ==
  /\ Active(a)
  /\ IF st[a].pc = "c_pay"
     THEN \E success \in processPayment(st[a].totalAmount, st[a].order.id) :
            LET s == [st[a] EXCEPT !.paymentResult = Reply(success),
                                   !.authCalls = @ + 1]
            IN  IF PaymentDeclined(success)
                THEN \E x \in Log(s, <<"PAYMENT_FAILURE">>) :
                       \E y \in IF x.pc = "done" THEN {x}
                                ELSE Log(AfterDecline(x), <<Rollback(x)>>) :
                         st' = [st EXCEPT ![a] = y]
                ELSE \E x \in Throw(s, <<>>, TransactionTimeout) :
                       st' = [st EXCEPT ![a] = x]
     ELSE \E x \in Throw(st[a], <<>>, TransactionTimeout) :
            st' = [st EXCEPT ![a] = x]
  /\ stock' = RollbackStock(a)
  /\ UNCHANGED <<price, orders, payments, nextOrderId, setting, ledger, calls>>

NextTimeout ==
  \/ Next
  \/ \E a \in Procs : SlotTimeout(a)
  \/ \E a \in Procs : TxTimeout(a)

\* the engine with a Payment Authorizer that may decline and transactions
\* that may run out of time
SpecTimeout == InitFallible /\ [][NextTimeout]_vars

(* ------------------------- request handlers --------------------------- *)
\* error.message of what the services throw, word by word (part_002 lines
\* 20, 33, 44, 94, 152, 190, 201); a failure of the database client carries
\* the client's own text
Message(res) ==
  CASE res.error = "UserNotFound"      -> <<"User", "not", "found">>
    [] res.error = "ProductNotFound"   ->
         <<"Product", ToString(res.detail[1]), "not", "found">>
    [] res.error = "InsufficientStock" ->
         <<"Insufficient", "stock", "for", "product", ToString(res.detail[1]),
           "Available:", ToString(res.detail[2]),
           "Requested:", ToString(res.detail[3])>>
    [] res.error = "PaymentFailed"     -> <<"Payment", "processing", "failed">>
    [] res.error = "OrderNotFound"     -> <<"Order", "not", "found">>
    [] res.error = "NotCancelable"     ->
         <<"Cannot", "cancel", "order", "with", "status:", res.detail[1]>>
    [] OTHER                           -> res.detail

\* String.prototype.includes, on words
Includes(message, words) ==
  \E i \in 1..(Len(message) + 1 - Len(words)) :
    SubSeq(message, i, i + Len(words) - 1) = words

\* orderController.createOrder, lines 28-39: res.status(...)
createOrderStatus(res) ==
  IF res.kind = "ok" THEN 201
  ELSE IF \/ Includes(Message(res), <<"not", "found">>)
          \/ Includes(Message(res), <<"Insufficient", "stock">>)
  THEN 400
  ELSE 500

\* orderController.getOrder, lines 54-64
getOrderStatus(res) ==
  IF res.kind = "ok" THEN 200
  ELSE IF Message(res) = <<"Order", "not", "found">> THEN 404
  ELSE 500

\* orderController.cancelOrder, lines 77-91
cancelOrderStatus(res) ==
  IF res.kind = "ok" THEN 200
  ELSE IF Message(res) = <<"Order", "not", "found">> THEN 404
  ELSE IF Includes(Message(res), <<"Cannot", "cancel">>) THEN 400
  ELSE 500

\* the response to the finished call s: the status, and in the body the
\* result, error.message or 'Internal server error'
Response(s) ==
  LET status == CASE s.op = "none"   -> 400
                  [] s.op = "create" -> createOrderStatus(s.result)
                  [] s.op = "get"    -> getOrderStatus(s.result)
                  [] s.op = "cancel" -> cancelOrderStatus(s.result)
  IN  [status |-> status,
       body   |-> IF s.result.kind = "ok" THEN s.result
                  ELSE IF status = 500 THEN <<"Internal", "server", "error">>
                  ELSE Message(s.result)]

\* the status of the response to the finished call of slot a
HttpStatus(a) == Response(st[a]).status

(* ------------------------------ claims -------------------------------- *)
Finished(a, op) == st[a].pc = "done" /\ st[a].op = op
Ok(a)           == st[a].result.kind = "ok"
Failed(a, name) == st[a].result.kind = "error" /\ st[a].result.error = name

\* slots a and b hold two createOrder calls that ran concurrently, each for
\* one unit of product p, each started when the stock of p was 1
TwoCreatesForLastUnit(a, b, p) ==
  /\ a # b
  /\ Finished(a, "create") /\ Finished(b, "create")
  /\ ~st[a].alone /\ ~st[b].alone
  /\ st[a].userId \in Users /\ st[b].userId \in Users
  /\ st[a].items = <<[productId |-> p, quantity |-> 1]>>
  /\ st[b].items = st[a].items
  /\ st[a].pre.stock[p] = 1 /\ st[b].pre.stock[p] = 1

\* C1: two concurrent createOrder calls for the last unit of a product end
\* in exactly one success and one InsufficientStock failure, with the stock
\* of the product at 0.
C1_OneOfTwoCreatesWins ==
  \A a, b \in Procs, p \in Products :
    TwoCreatesForLastUnit(a, b, p) =>
      /\ \/ Ok(a) /\ Failed(b, "InsufficientStock")
         \/ Ok(b) /\ Failed(a, "InsufficientStock")
      /\ stock[p] = 0

\* C2: the committed stock of every product is >= 0 in every reachable state.
C2_StockNeverNegative == \A p \in Products : stock[p] >= 0

\* the step in which the call of slot a ends
Ends(a) == Active(a) /\ st'[a].pc = "done"

\* the committed rows after the step
SnapshotAfter == [stock |-> stock', orders |-> orders', payments |-> payments']

\* C3: a createOrder call that succeeds persists and returns a total equal
\* to the sum over its lines of (product price at order time x quantity),
\* the order is in status processing with one order item per request line,
\* and the commit lowers the stock of each product by exactly the quantity
\* ordered of it.
C3_CreateEffect ==
  [][\A a \in Procs :
       (Ends(a) /\ st[a].op = "create" /\ st'[a].result.kind = "ok") =>
         LET r   == st'[a].result
             its == st[a].items
         IN  /\ r.orderId \notin DOMAIN orders
             /\ r.orderId \in DOMAIN orders'
             /\ LET o == orders'[r.orderId]
                IN  /\ o.status = "processing" /\ r.status = "processing"
                    /\ Len(o.orderItems) = Len(its)
                    /\ \A i \in DOMAIN its :
                         /\ o.orderItems[i].productId = its[i].productId
                         /\ o.orderItems[i].quantity = its[i].quantity
                         /\ o.orderItems[i].price = price[its[i].productId]
                    /\ o.totalAmount = ItemsTotal(o.orderItems)
                    /\ r.totalAmount = o.totalAmount
             /\ \A p \in Products : stock'[p] = stock[p] - QtyOf(its, p)
    ]_vars

C3_Witness ==
  \E a \in Procs :
    /\ Finished(a, "create") /\ Ok(a)
    /\ Len(st[a].items) = 2
    /\ orders[st[a].result.orderId].totalAmount = st[a].result.totalAmount
    /\ \E p \in Products : stock[p] < st[a].pre.stock[p]

\* what a createOrder call running alone meets first when it walks its
\* lines over the stock stk: a missing product, a line asking for more than
\* is left after the earlier lines, or neither
RECURSIVE FirstFailure(_, _, _)
FirstFailure(its, i, stk) ==
  IF i > Len(its) THEN "none"
  ELSE IF its[i].productId \notin Products THEN "ProductNotFound"
  ELSE IF stk[its[i].productId] < its[i].quantity THEN "InsufficientStock"
  ELSE FirstFailure(its, i + 1,
                    [stk EXCEPT ![its[i].productId] = @ - its[i].quantity])

\* C4: a createOrder call that meets a line asking for more units than the
\* product has left fails with InsufficientStock, and stock, orders, order
\* items and payments are exactly as before the call, also when earlier
\* lines of the request had already been checked and decremented.
C4_InsufficientStockLeavesStore ==
  [][\A a \in Procs :
       /\ (Ends(a) /\ st'[a].result.error = "InsufficientStock") =>
            store' = store
       /\ LET s == st'[a]
          IN  (s.pc = "done" /\ s.op = "create" /\ s.alone) =>
                /\ s.result.error = "InsufficientStock" => SnapshotAfter = s.pre
                /\ (/\ s.userId \in Users
                    /\ FirstFailure(s.items, 1, s.pre.stock) = "InsufficientStock")
                   => (s.result.kind = "error" /\ s.result.error = "InsufficientStock")
    ]_vars

C4_Witness ==
  \E a \in Procs :
    /\ Finished(a, "create") /\ Failed(a, "InsufficientStock")
    /\ st[a].alone
    /\ Len(st[a].orderItemsData) >= 1
    /\ Snapshot = st[a].pre

\* C5: when the Payment Authorizer declines, createOrder fails with
\* PaymentFailed; no order, order item or payment of the attempt is
\* committed and the stock of every product is as before the attempt.
C5_PaymentFailureRollsBack ==
  [][\A a \in Procs :
       /\ (st[a].pc = "c_pay" /\ st'[a].paymentResult = "declined") =>
            /\ st'[a].pc = "done"
            /\ store' = store
       /\ LET s == st'[a]
          IN  (s.pc = "done" /\ s.paymentResult = "declined") =>
                /\ s.result.kind = "error" /\ s.result.error = "PaymentFailed"
                /\ s.order.id \notin DOMAIN orders'
                /\ PaymentsOf(payments', s.order.id) = {}
                /\ s.alone => SnapshotAfter = s.pre
    ]_vars

C5_Witness ==
  \E a \in Procs :
    /\ Finished(a, "create") /\ Failed(a, "PaymentFailed")
    /\ st[a].paymentResult = "declined"
    /\ st[a].alone
    /\ Len(st[a].orderItemsData) = 2
    /\ Snapshot = st[a].pre

\* the order a finished cancelOrder call of slot a was for, as it was
\* committed when the call started
OrderBefore(a) == st[a].pre.orders[st[a].orderId]

\* C6: cancelOrder on a processing order adds each item's quantity to the
\* stock of its product and sets the status to cancelled; cancelOrder on
\* the order once cancelled succeeds, returns cancelled and changes nothing.
C6_CancelIdempotent ==
  \A a \in Procs :
    (/\ Finished(a, "cancel") /\ st[a].alone
     /\ st[a].orderId \in DOMAIN st[a].pre.orders) =>
      /\ OrderBefore(a).status = "processing" =>
           /\ Ok(a) /\ st[a].result.status = "cancelled"
           /\ orders[st[a].orderId].status = "cancelled"
           /\ \A p \in Products :
                stock[p] = st[a].pre.stock[p] + QtyOf(OrderBefore(a).orderItems, p)
      /\ OrderBefore(a).status = "cancelled" =>
           /\ Ok(a) /\ st[a].result.status = "cancelled"
           /\ Snapshot = st[a].pre

C6_Witness ==
  \E a \in Procs :
    /\ Finished(a, "cancel") /\ st[a].alone /\ Ok(a)
    /\ st[a].orderId \in DOMAIN st[a].pre.orders
    /\ OrderBefore(a).status = "cancelled"
    /\ stock[1] = InitStock[1] + 1
    /\ Snapshot = st[a].pre

\* C7: two concurrent cancelOrder calls on one processing order restore the
\* stock of each item's product once, and the order ends cancelled.
C7_ConcurrentCancelsRestoreOnce ==
  \A a, b \in Procs :
    (/\ a # b
     /\ Finished(a, "cancel") /\ Finished(b, "cancel")
     /\ ~st[a].alone /\ ~st[b].alone
     /\ st[a].orderId = st[b].orderId
     /\ st[a].pre = st[b].pre
     /\ st[a].orderId \in DOMAIN st[a].pre.orders
     /\ OrderBefore(a).status = "processing") =>
      /\ Ok(a) /\ Ok(b)
      /\ orders[st[a].orderId].status = "cancelled"
      /\ \A p \in Products :
           stock[p] = st[a].pre.stock[p] + QtyOf(OrderBefore(a).orderItems, p)

\* C8: cancelOrder on a shipped or delivered order fails with NotCancelable
\* naming that status; the status of the order and the stock of every
\* product stay as they were.
C8_ShippedNotCancelable ==
  \A a \in Procs :
    (/\ Finished(a, "cancel")
     /\ st[a].orderId \in DOMAIN st[a].pre.orders
     /\ OrderBefore(a).status \in {"shipped", "delivered"}) =>
      /\ Failed(a, "NotCancelable")
      /\ st[a].result.detail = <<OrderBefore(a).status>>
      /\ orders[st[a].orderId].status = OrderBefore(a).status
      /\ st[a].alone => Snapshot = st[a].pre

C8_Witness ==
  \E a \in Procs :
    /\ Finished(a, "cancel") /\ Failed(a, "NotCancelable")
    /\ st[a].result.detail = <<"delivered">>
    /\ st[a].alone
    /\ Snapshot = st[a].pre

\* the step in which the transaction of slot a commits
Commits(a) == st[a].pc \in {"c_commit", "x_commit"} /\ st'[a].pc = "done"

\* C9: what other sessions can read changes only when a transaction
\* commits, and then by the whole of its writes at once: a new order comes
\* with all its items, its succeeded payment and the stock decrements; a
\* cancellation comes with the status and every stock increment; the writes
\* of an attempt that fails never show.
C9_NoPartialState ==
  [][/\ store' # store =>
          \E a \in Procs :
            /\ Commits(a)
            /\ IF st[a].op = "create"
               THEN LET o == st[a].order
                    IN  /\ o.id \notin DOMAIN orders
                        /\ DOMAIN orders' = DOMAIN orders \cup {o.id}
                        /\ \A i \in DOMAIN orders : orders'[i] = orders[i]
                        /\ orders'[o.id].status = "processing"
                        /\ orders'[o.id].orderItems = st[a].orderItemsData
                        /\ Len(st[a].orderItemsData) = Len(st[a].items)
                        /\ payments' = Append(payments,
                                              [orderId |-> o.id,
                                               amount  |-> o.totalAmount,
                                               status  |-> "succeeded"])
                        /\ \A p \in Products :
                             stock'[p] = stock[p] - QtyOf(st[a].items, p)
               ELSE LET o == st[a].orderId
                    IN  /\ orders' = [orders EXCEPT ![o].status = "cancelled"]
                        /\ payments' = payments
                        /\ \A p \in Products :
                             stock'[p] = stock[p] + QtyOf(orders[o].orderItems, p)
     /\ \A a \in Procs : (Ends(a) /\ st'[a].result.kind = "error") => store' = store
    ]_vars

C9_Witness ==
  \E a, b \in Procs :
    /\ a # b
    /\ st[a].pc = "c_commit" /\ st[b].pc = "c_find"
    /\ \E p \in Products : st[a].dstock[p] < 0
    /\ stock = st[a].pre.stock
    /\ st[a].order.id \notin DOMAIN orders
    /\ PaymentsOf(payments, st[a].order.id) = {}

\* C10: in every committed state an order created by createOrder has exactly
\* one payment, succeeded and for the order's total; an order still pending
\* has none; no order has two; no payment belongs to an attempt that did not
\* commit.
C10_OnePaymentPerOrder ==
  /\ \A o \in DOMAIN orders :
       LET ps == PaymentsOf(payments, o)
       IN  /\ Cardinality(ps) <= 1
           /\ orders[o].byEngine =>
                /\ Cardinality(ps) = 1
                /\ \A i \in ps : /\ payments[i].status = "succeeded"
                                 /\ payments[i].amount = orders[o].totalAmount
           /\ orders[o].status = "pending" => ps = {}
  /\ \A i \in DOMAIN payments : payments[i].orderId \in DOMAIN orders

C10_Witness ==
  /\ \E o \in DOMAIN orders :
       orders[o].byEngine /\ Cardinality(PaymentsOf(payments, o)) = 1
  /\ \E b \in Procs :
       /\ Finished(b, "create") /\ Failed(b, "PaymentFailed")
       /\ st[b].order.id \notin DOMAIN orders

\* C11: for every order, committed or inserted by a transaction still in
\* flight, the sum of price x quantity over its order items equals its
\* total amount, also once it is cancelled and once the price of a product
\* has changed.
C11_ItemsSumToTotal ==
  /\ \A o \in DOMAIN orders :
       ItemsTotal(orders[o].orderItems) = orders[o].totalAmount
  /\ \A a \in Procs :
       st[a].order.id # 0 =>
         ItemsTotal(st[a].order.orderItems) = st[a].order.totalAmount

C11_Witness ==
  \E o \in DOMAIN orders :
    /\ orders[o].byEngine
    /\ orders[o].status = "cancelled"
    /\ \E i \in DOMAIN orders[o].orderItems :
         price[orders[o].orderItems[i].productId] # orders[o].orderItems[i].price

\* C12: a finished getOrderDetails has failed with OrderNotFound when no
\* order had the id, and otherwise returned the order's id, status, total
\* amount and, line by line, the product, quantity and price of its order
\* items as stored: the prices add up to the total returned, whatever the
\* products cost now.
C12_DetailsFromStoredPrices ==
  \A a \in Procs :
    Finished(a, "get") =>
      LET o == st[a].orderId
          r == st[a].result
      IN  IF o \notin DOMAIN st[a].pre.orders
          THEN Failed(a, "OrderNotFound")
          ELSE LET order == st[a].pre.orders[o]
               IN  /\ Ok(a)
                   /\ r.orderId = o
                   /\ r.status = order.status
                   /\ r.totalAmount = order.totalAmount
                   /\ DOMAIN r.detail = DOMAIN order.orderItems
                   /\ \A i \in DOMAIN r.detail :
                        /\ r.detail[i].productId = order.orderItems[i].productId
                        /\ r.detail[i].quantity = order.orderItems[i].quantity
                        /\ r.detail[i].price = order.orderItems[i].price
                   /\ ItemsTotal(r.detail) = r.totalAmount

C12_Witness ==
  \E a \in Procs :
    /\ Finished(a, "get")
    /\ Ok(a)
    /\ st[a].pre.orders[st[a].orderId].byEngine
    /\ \E i \in DOMAIN st[a].result.detail :
         /\ st[a].pre.price[st[a].result.detail[i].productId]
              # st[a].result.detail[i].price
         /\ st[a].result.detail[i].price
              = InitPrice[st[a].result.detail[i].productId]

\* C13: a step of a cancelOrder call leaves the payments, every other order,
\* the order's own items, total, user and id, and the stock of every product
\* no item of the order refers to as they were; a cancelOrder call that ran
\* alone leaves all of these as they were when it started.
C13_CancelFrame ==
  [][\A a \in Procs :
       /\ (st'[a].op = "cancel" /\ st'[a] # st[a]) =>
            LET o == st'[a].orderId
            IN  /\ payments' = payments
                /\ DOMAIN orders' = DOMAIN orders
                /\ \A i \in DOMAIN orders : i # o => orders'[i] = orders[i]
                /\ o \in DOMAIN orders =>
                     /\ orders'[o].orderItems = orders[o].orderItems
                     /\ orders'[o].totalAmount = orders[o].totalAmount
                     /\ orders'[o].userId = orders[o].userId
                     /\ orders'[o].id = orders[o].id
                     /\ \A p \in Products :
                          QtyOf(orders[o].orderItems, p) = 0 => stock'[p] = stock[p]
                /\ o \notin DOMAIN orders => stock' = stock
       /\ LET s == st'[a]
              o == s.orderId
          IN  (s.pc = "done" /\ s.op = "cancel" /\ s.alone) =>
                /\ payments' = s.pre.payments
                /\ DOMAIN orders' = DOMAIN s.pre.orders
                /\ \A i \in DOMAIN orders' :
                     [orders'[i] EXCEPT !.status = "any"]
                       = [s.pre.orders[i] EXCEPT !.status = "any"]
                /\ \A i \in DOMAIN orders' :
                     i # o => orders'[i] = s.pre.orders[i]
                /\ \A p \in Products :
                     (o \in DOMAIN orders' => QtyOf(orders'[o].orderItems, p) = 0)
                       => stock'[p] = s.pre.stock[p]
    ]_vars

C13_Witness ==
  \E a \in Procs :
    /\ Finished(a, "cancel") /\ Ok(a) /\ st[a].alone
    /\ st[a].orderId \in DOMAIN st[a].pre.orders
    /\ OrderBefore(a).byEngine
    /\ OrderBefore(a).status = "processing"
    /\ PaymentsOf(payments, st[a].orderId) # {}
    /\ Cardinality(DOMAIN orders) = 2
    /\ \E p \in Products :
         /\ QtyOf(OrderBefore(a).orderItems, p) = 0
         /\ stock[p] = st[a].pre.stock[p]
    /\ \E p \in Products : stock[p] > st[a].pre.stock[p]

\* C14: createOrder for a user that does not exist fails with UserNotFound;
\* a line naming a product that does not exist makes it fail with
\* ProductNotFound naming that id; the failing step changes no committed
\* row, and after a call that ran alone stock, orders, order items and
\* payments are as before the call, also when earlier lines had been
\* decremented.
C14_NotFoundLeavesStore ==
  [][\A a \in Procs :
       LET s == st'[a]
       IN  (s.pc = "done" /\ s.op = "create") =>
             /\ s.userId \notin Users =>
                  (s.result.kind = "error" /\ s.result.error = "UserNotFound")
             /\ (s.result.error = "UserNotFound" /\ s # st[a]) => store' = store
             /\ s.result.error = "ProductNotFound" =>
                  /\ s # st[a] => store' = store
                  /\ Len(s.orderItemsData) < Len(s.items)
                  /\ s.result.detail
                       = <<s.items[Len(s.orderItemsData) + 1].productId>>
                  /\ s.result.detail[1] \notin Products
             /\ (s.alone /\ s.result.error \in {"UserNotFound", "ProductNotFound"})
                  => SnapshotAfter = s.pre
             /\ (/\ s.alone /\ s.userId \in Users
                 /\ FirstFailure(s.items, 1, s.pre.stock) = "ProductNotFound")
                  => (s.result.kind = "error" /\ s.result.error = "ProductNotFound")
    ]_vars

C14_Witness ==
  \E a \in Procs :
    /\ Finished(a, "create") /\ Failed(a, "ProductNotFound")
    /\ st[a].alone
    /\ Len(st[a].orderItemsData) >= 1
    /\ st[a].result.detail = <<3>>
    /\ Snapshot = st[a].pre

\* C15: the response to a finished call has status 404 when the failure is
\* a user, product or order not found, 400 when it is insufficient stock, an
\* order that cannot be cancelled or a declined payment, and 500 when it is
\* any other failure.
C15_HandlerStatusCodes ==
  \A a \in Procs :
    (st[a].pc = "done" /\ st[a].result.kind = "error") =>
      LET e == st[a].result.error
      IN  HttpStatus(a) =
            IF e \in {"UserNotFound", "ProductNotFound", "OrderNotFound"} THEN 404
            ELSE IF e \in {"InsufficientStock", "NotCancelable", "PaymentFailed"}
            THEN 400
            ELSE 500

\* C16: the Payment Authorizer is invoked at most once per createOrder
\* attempt, and exactly once in every attempt that gets past the checks of
\* its user and lines; the invocation happens inside the transaction, with
\* every stock decrement made and the order written but nothing of it
\* committed and no payment row yet; only an approved attempt commits; a
\* declined attempt ends at once with PaymentFailed and is not run again.
C16_AuthorizerOnceInsideTransaction ==
  [][\A a \in Procs :
       /\ st'[a].authCalls > st[a].authCalls =>
            /\ st[a].pc = "c_pay"
            /\ st[a].authCalls = 0 /\ st'[a].authCalls = 1
            /\ Len(st[a].orderItemsData) = Len(st[a].items)
            /\ \A p \in Products : st[a].dstock[p] = -QtyOf(st[a].items, p)
            /\ st[a].order.id # 0
            /\ st[a].order.id \notin DOMAIN orders
            /\ st[a].payment = NoPayment
            /\ PaymentsOf(payments, st[a].order.id) = {}
            /\ store' = store
            /\ st'[a].paymentResult = "declined" =>
                 (st'[a].pc = "done" /\ st'[a].result.error = "PaymentFailed")
            /\ st'[a].paymentResult = "approved" =>
                 (st'[a].pc = "c_commit" /\ st'[a].payment # NoPayment)
       /\ (st[a].pc = "c_pay" /\ st'[a].pc # "c_pay") =>
            (st'[a].authCalls = 1 \/ st'[a].result.error = "Internal")
       /\ (Commits(a) /\ st[a].op = "create") =>
            (st[a].authCalls = 1 /\ st[a].paymentResult = "approved")
       /\ LET s == st'[a]
          IN  (s.pc = "done" /\ s.op = "create") =>
                /\ s.authCalls <= 1
                /\ s.authCalls = 1 <=>
                     (s.result.kind = "ok" \/ s.result.error = "PaymentFailed")
                /\ s.authCalls = 0 <=>
                     s.result.error \in {"UserNotFound", "ProductNotFound",
                                         "InsufficientStock", "Internal"}
       /\ (st[a].pc = "done" /\ st'[a].pc # "done") => calls' = calls + 1
    ]_vars

C16_Witness ==
  \E a, b \in Procs :
    /\ a # b
    /\ Finished(a, "create") /\ Failed(a, "PaymentFailed")
    /\ st[a].authCalls = 1
    /\ st[b].op = "create" /\ st[b].pc = "c_commit"
    /\ st[b].authCalls = 1

TimeoutErrors == {"TransactionTimeout", "TransactionSlotUnavailable"}

BusinessErrors == {"UserNotFound", "ProductNotFound", "InsufficientStock",
                   "PaymentFailed", "OrderNotFound", "NotCancelable"}

\* a call that ends on a timeout commits nothing, and after one that ran
\* alone every committed row is as before the call
TimeoutKeepsStore ==
  \A a \in Procs :
    LET s == st'[a]
    IN  (s.pc = "done" /\ s.result.error \in TimeoutErrors) =>
          /\ s # st[a] => store' = store
          /\ s.alone => SnapshotAfter = s.pre

\* after the step, the response to a call that ended on a timeout differs
\* from the response to a call of the same operation that failed on a
\* business rule
TimeoutDistinct ==
  \A a, b \in Procs :
    (/\ st'[a].pc = "done" /\ st'[b].pc = "done" /\ st'[a].op = st'[b].op
     /\ st'[a].result.error \in TimeoutErrors
     /\ st'[b].result.error \in BusinessErrors) =>
      Response(st'[a]) # Response(st'[b])

\* C17: a createOrder or cancelOrder attempt that exceeds the slot-wait or
\* the execution timeout is aborted with none of its writes retained, and
\* the failure reported for it can be told from every business-rule failure.
C17_TimeoutAbortsDistinctly ==
  [][TimeoutKeepsStore /\ TimeoutDistinct]_vars

\* C18: the status of an order changes only when a cancelOrder commits, and
\* only to cancelled; a new order appears only when a createOrder commits,
\* in processing; a cancelled order stays cancelled; no order is removed.
C18_StatusOnlyToCancelled ==
  [][/\ \A o \in DOMAIN orders :
          /\ o \in DOMAIN orders'
          /\ orders'[o].status # orders[o].status =>
               /\ orders'[o].status = "cancelled"
               /\ \E a \in Procs :
                    Commits(a) /\ st[a].op = "cancel" /\ st[a].orderId = o
          /\ orders[o].status = "cancelled" => orders'[o].status = "cancelled"
     /\ \A o \in DOMAIN orders' \ DOMAIN orders :
          /\ orders'[o].status = "processing"
          /\ \E a \in Procs :
               Commits(a) /\ st[a].op = "create" /\ st[a].order.id = o
    ]_vars

C18_Witness ==
  \E a \in Procs :
    /\ Finished(a, "cancel") /\ Ok(a)
    /\ st[a].orderId \in DOMAIN st[a].pre.orders
    /\ OrderBefore(a).byEngine
    /\ OrderBefore(a).status = "processing"
    /\ orders[st[a].orderId].status = "cancelled"
    /\ orders[1].status \in {"shipped", "delivered", "pending"}

\* C19: createOrder takes the lines in the order given: when it fails on a
\* line, every earlier line has been checked and decremented, the failure is
\* about that line (its product is missing, or has fewer units left than
\* asked), and no later line has been checked or decremented; a call that
\* ran alone fails with the error of the first line, in list order, that is
\* missing or short of stock.
C19_StopsAtFirstFailingItem ==
  [][\A a \in Procs :
       /\ (/\ st[a].pc = "c_find" /\ st'[a].pc = "done"
           /\ st'[a].result.error \in {"ProductNotFound", "InsufficientStock"}) =>
            LET i    == st[a].idx
                its  == st[a].items
                done == st[a].orderItemsData
            IN  /\ i \in DOMAIN its
                /\ Len(done) = i - 1
                /\ \A j \in 1..(i - 1) :
                     /\ done[j].productId = its[j].productId
                     /\ done[j].quantity = its[j].quantity
                /\ \A p \in Products :
                     st[a].dstock[p] = -QtyOf(SubSeq(its, 1, i - 1), p)
                /\ st'[a].result.detail[1] = its[i].productId
                /\ st'[a].orderItemsData = done
                /\ IF st'[a].result.error = "ProductNotFound"
                   THEN its[i].productId \notin Products
                   ELSE /\ its[i].productId \in Products
                        /\ stock[its[i].productId] + st[a].dstock[its[i].productId]
                             < its[i].quantity
       /\ (st[a].pc = "c_find" /\ st'[a].pc = "c_update") =>
            /\ st'[a].idx = st[a].idx
            /\ Len(st'[a].orderItemsData) = st[a].idx
            /\ st'[a].orderItemsData[st[a].idx].productId
                 = st[a].items[st[a].idx].productId
       /\ (st[a].pc = "c_update" /\ st'[a].pc = "c_find") =>
            /\ st'[a].idx = st[a].idx + 1
            /\ st'[a].dstock =
                 [st[a].dstock EXCEPT ![st[a].items[st[a].idx].productId] =
                                        @ - st[a].items[st[a].idx].quantity]
       /\ LET s == st'[a]
          IN  (/\ s.pc = "done" /\ s.op = "create" /\ s.alone
               /\ s.userId \in Users
               /\ FirstFailure(s.items, 1, s.pre.stock) # "none") =>
                /\ s.result.kind = "error"
                /\ s.result.error = FirstFailure(s.items, 1, s.pre.stock)
    ]_vars

C19_Witness ==
  \E a \in Procs :
    /\ Finished(a, "create") /\ Failed(a, "InsufficientStock")
    /\ st[a].alone
    /\ Len(st[a].items) = 2
    /\ st[a].orderItemsData = <<>>
    /\ st[a].items[2].productId \notin Products
    /\ st[a].result.detail[1] = st[a].items[1].productId

\* C20: the committed stock of every product equals its initial stock minus
\* the quantities of the createOrder calls that committed plus the
\* quantities restored by the cancelOrder calls that committed, however the
\* calls overlapped: no update of the stock is lost.
C20_NoLostStockUpdate ==
  \A p \in Products : stock[p] = InitStock[p] + ledger[p]

C20_Witness ==
  \E a, b \in Procs, p \in Products :
    /\ Finished(a, "create") /\ Ok(a) /\ ~st[a].alone
    /\ Finished(b, "cancel") /\ Ok(b) /\ ~st[b].alone
    /\ st[b].orderId \in DOMAIN st[b].pre.orders
    /\ OrderBefore(b).status = "processing"
    /\ QtyOf(st[a].items, p) > 0
    /\ QtyOf(OrderBefore(b).orderItems, p) > 0
    /\ st[a].pre.stock[p] = st[b].pre.stock[p]
    /\ stock[p] = st[a].pre.stock[p]

\* what a createOrder call s that ran alone comes to, from its request and
\* the rows at its start
ExpectedCreate(s) ==
  IF s.userId \notin Users THEN "UserNotFound"
  ELSE FirstFailure(s.items, 1, s.pre.stock)

Occurrences(t, e) == Cardinality({i \in DOMAIN t : t[i] = e})

\* C22: the trace of every finished createOrder attempt starts with
\* TRANSACTION_START and has exactly one of TRANSACTION_COMMIT and
\* TRANSACTION_ROLLBACK, and it has TRANSACTION_COMMIT only when the
\* attempt's transaction committed: the call succeeded and its order is
\* among the committed rows.
C22_TraceBracketsAttempt ==
  \A a \in Procs :
    Finished(a, "create") =>
      LET t == st[a].trace
      IN  /\ t # <<>>
          /\ t[1] = "TRANSACTION_START"
          /\ Occurrences(t, "TRANSACTION_COMMIT")
               + Occurrences(t, "TRANSACTION_ROLLBACK") = 1
          /\ Occurrences(t, "TRANSACTION_COMMIT") > 0 =>
               /\ Ok(a)
               /\ st[a].order.id \in DOMAIN orders

\* C23: two distinct attempts of the same operation never carry the same
\* transaction ID, also when they start in the same millisecond.
C23_UniqueTransactionIds ==
  \A a, b \in Procs :
    (/\ a # b
     /\ st[a].op \in {"create", "cancel"}
     /\ st[a].op = st[b].op) =>
      st[a].transactionId # st[b].transactionId


\* a user identifier and a non-empty list of (product identifier, positive
\* quantity) pairs
WellFormedOrder(userId, items) ==
  /\ userId # 0
  /\ Len(items) > 0
  /\ \A i \in DOMAIN items :
       /\ "productId" \in DOMAIN items[i]
       /\ "quantity" \in DOMAIN items[i]
       /\ items[i].productId # 0
       /\ items[i].quantity > 0

\* C24: through the request handler, createOrder is never invoked with a
\* missing user identifier, an empty item list, or an item whose product
\* identifier is missing or whose quantity is missing, zero or negative;
\* a request the handler rejects is answered 400 and changes no stored
\* state.
C24_HandlerRejectsInvalid ==
  [][\A a \in Procs :
       /\ st'[a].op = "create" =>
            WellFormedOrder(st'[a].userId, st'[a].items)
       /\ (st'[a] # st[a] /\ st'[a].request # NoRequest) =>
            /\ Response(st'[a]).status = 400
            /\ st'[a].transactionId = <<>>
            /\ store' = store
            /\ nextOrderId' = nextOrderId
            /\ ledger' = ledger]_vars

\* after a committed order, a request whose second item has a negative
\* quantity was rejected
C24_Witness ==
  \E a \in Procs :
    /\ st[a].request # NoRequest
    /\ "items" \in DOMAIN st[a].request
    /\ Len(st[a].request.items.elems) = 2
    /\ st[a].request.items.elems[2].quantity < 0
    /\ st[a].result.error = "InvalidRequest"
    /\ nextOrderId > 2


\* C25: when a createOrder request lists the same product in several lines,
\* each check sees the stock left after the earlier lines' decrements of the
\* same transaction: a call that ran alone, for an existing user and
\* existing products, succeeds exactly if for every product it lists the sum
\* of the quantities asked is at most its stock, and otherwise fails with
\* InsufficientStock and the stock as it was.
C25_RepeatedProductSeesOwnDecrements ==
  [][\A a \in Procs :
       /\ (/\ Ends(a) /\ st[a].op = "create" /\ st[a].alone
           /\ UserExists(st[a].userId)
           /\ \A i \in DOMAIN st[a].items :
                st[a].items[i].productId \in Products) =>
            IF \A i \in DOMAIN st[a].items :
                 QtyOf(st[a].items, st[a].items[i].productId)
                   <= st[a].pre.stock[st[a].items[i].productId]
            THEN /\ st'[a].result.kind = "ok"
                 /\ stock' = [p \in Products |->
                                st[a].pre.stock[p] - QtyOf(st[a].items, p)]
            ELSE /\ st'[a].result.kind = "error"
                 /\ st'[a].result.error = "InsufficientStock"
                 /\ stock' = st[a].pre.stock
       /\ (st[a].pc = "c_find" /\ st'[a].pc = "c_update" /\ st[a].alone) =>
            LET item == st[a].items[st[a].idx]
            IN  item.quantity <=
                  st[a].pre.stock[item.productId]
                    - QtyOf(SubSeq(st[a].items, 1, st[a].idx - 1),
                            item.productId)]_vars

\* two lines for one unit each of a product with one unit in stock: the
\* second check found none left
C25_Witness ==
  \E a \in Procs :
    /\ Finished(a, "create") /\ st[a].alone
    /\ Len(st[a].items) = 2
    /\ st[a].items[1].productId = st[a].items[2].productId
    /\ st[a].items[1].productId \in Products
    /\ st[a].pre.stock[st[a].items[1].productId] = 1
    /\ st[a].items[1].quantity = 1 /\ st[a].items[2].quantity = 1
    /\ Failed(a, "InsufficientStock")
    /\ st[a].result.detail = <<st[a].items[1].productId, 0, 1>>
    /\ stock = st[a].pre.stock


\* units of product p in the items of the orders of os that are not
\* cancelled
OpenQty(os, p) ==
  SumSeq([o \in DOMAIN os |->
            IF os[o].status # "cancelled" THEN QtyOf(os[o].orderItems, p)
            ELSE 0])

\* the same, counting only the orders createOrder wrote
EngineOpenQty(os, p) ==
  SumSeq([o \in DOMAIN os |->
            IF os[o].byEngine /\ os[o].status # "cancelled"
            THEN QtyOf(os[o].orderItems, p)
            ELSE 0])

NoCallInFlight == \A a \in Procs : ~Active(a)

\* C26 as stated: after any sequence of createOrder and cancelOrder calls
\* made one at a time, for every product the stock plus the units of it in
\* the engine-created orders that are not cancelled equals its initial
\* stock.
C26_EngineOrdersAccountForStock ==
  NoCallInFlight =>
    \A p \in Products : stock[p] + EngineOpenQty(orders, p) = InitStock[p]

\* C26: after any sequence of createOrder and cancelOrder calls made one at
\* a time, for every product the stock plus the units of it in the orders
\* that are not cancelled, whoever created them, equals what that sum was
\* before the first call.
C26_StockConservation ==
  NoCallInFlight =>
    \A p \in Products :
      stock[p] + OpenQty(orders, p)
        = InitStock[p] + OpenQty(<<LegacyOrder("pending")>>, p)

\* an order was created and the order that was there before was cancelled
C26_Witness ==
  /\ NoCallInFlight
  /\ Len(orders) = 2
  /\ orders[1].status = "cancelled"
  /\ orders[2].status = "processing"
  /\ \E p \in Products : stock[p] # InitStock[p]


\* C27: whenever the Payment Authorizer has approved the payment of a
\* createOrder attempt, that attempt's order and its succeeded payment
\* record are committed: no attempt ends rolled back with an approved
\* authorization.
C27_ApprovedIsCommitted ==
  \A a \in Procs :
    (Finished(a, "create") /\ st[a].paymentResult = "approved") =>
      /\ Ok(a)
      /\ st[a].result.orderId \in DOMAIN orders
      /\ \E i \in DOMAIN payments :
           /\ payments[i].orderId = st[a].result.orderId
           /\ payments[i].status = "succeeded"


\* C28: every createOrder and cancelOrder attempt eventually finishes, with
\* a commit or a rollback, also when two concurrent createOrder attempts
\* update the same two products in opposite order and wait for each other's
\* row locks.
C28_EveryAttemptFinishes ==
  \A a \in Procs : Active(a) ~> st[a].pc = "done"

\* two createOrder calls listed the same two products in opposite order and
\* ran together; one was failed by the deadlock detector, the other
\* committed
C28_Witness ==
  \E a, b \in Procs :
    /\ a # b
    /\ Finished(a, "create") /\ Finished(b, "create")
    /\ Len(st[a].items) = 2 /\ Len(st[b].items) = 2
    /\ st[a].items[1].productId # st[a].items[2].productId
    /\ st[b].items[1].productId = st[a].items[2].productId
    /\ st[b].items[2].productId = st[a].items[1].productId
    /\ Failed(a, "Internal")
    /\ st[a].result.detail = <<"deadlock detected">>
    /\ Ok(b)

=============================================================================
